---- MODULE Spec2Model ----
(***************************************************************************)
(* A model of novel_knowledge_base's two core components:                  *)
(*   - the semantic chunker  (src/src/core/text/chunking.py)               *)
(*   - the cache layer       (src/src/utils/cache/cache_manager.py)        *)
(*                                                                         *)
(* Texts are modelled at paragraph granularity: a text is the sequence of  *)
(* the (stripped, non-blank) paragraphs that "\n\n" joins.  A paragraph    *)
(* carries its place in the input (chapter, index), its own token count    *)
(* and whether it matches one of config.safe_break_keywords.               *)
(***************************************************************************)
EXTENDS Integers, Sequences, FiniteSets, TLC

(* ------------------------------ bounds -------------------------------- *)
\* most chapters in one input
MaxChapters == 2
\* most raw paragraphs in one input (over all its chapters)
MaxParas == 3
\* largest max_tokens_per_chunk tried; a paragraph has up to MaxBudget + 1 tokens
MaxBudget == 3
\* tokens the estimator counts for one "\n\n" joint between two paragraphs
SepTokens == 1
\* largest max_size a MemoryCacheBackend is constructed with
MaxSize == 1
\* number of distinct cache keys used against a backend
NumKeys == 2
\* the clock (time.time()) runs from 0 to MaxTime
MaxTime == 3
\* the ttl values tried are None and 1..MaxTTL
MaxTTL == 1
\* the primitive arguments of a cached call are 0..MaxPrim
MaxPrim == 2
\* number of distinct instances of the opaque class passed to a cached call
NumInstances == 2
\* most calls made through a cached wrapper in one run
MaxCalls == 2
\* longest paragraph or buffer text, in characters, given to is_safe_break_point
MaxTextLen == 2
\* most patterns in safe_break_keywords, and the longest pattern, in characters
MaxPatterns == 2
MaxPatternLen == 2
\* max_retries and retry_delay tried on chat_completion
MaxRetries == 2
MaxDelay == 2

VARIABLES
    \* ---- chunk_novel_text (chunking.py:68-162)
    chapters,               \* the argument: a sequence of chapters, each a sequence of raw paragraphs
    config,                 \* ChunkConfig loaded at line 79
    chunks,                 \* chunks (line 81)
    current_chunk_text,     \* line 83
    current_start_chapter,  \* line 84
    current_chapter_index,  \* line 85
    paragraphs,             \* line 93: the paragraphs of the chapter being read
    para_pos,               \* position of the for loop of line 95 in paragraphs
    pc,                     \* "idle" | "while" | "for" | "done"
    count_tokens_calls,     \* number of llm_client.count_tokens calls made so far
    arbiter_calls,          \* the _refine_chunks_with_llm calls made so far: <<[input, output]>>
    fell_through            \* history: some pass of the for body took neither cut nor the append

chunkVars == <<chapters, config, chunks, current_chunk_text, current_start_chapter,
               current_chapter_index, paragraphs, para_pos, pc, count_tokens_calls,
               arbiter_calls, fell_through>>

VARIABLES
    \* ---- cache_manager.py
    now,            \* the value time.time() returned last
    backend,        \* which CacheBackend is under test: "memory" | "file" | "none"
    _cache,         \* MemoryCacheBackend._cache: the entries, in dict (insertion) order
    max_size,       \* MemoryCacheBackend.max_size
    _lock,          \* MemoryCacheBackend._lock: "free" | "held"
    cache_dir,      \* FileCacheBackend.cache_dir: key -> the record of <key>.pkl
    ret,            \* the last backend call and what it returned
    \* ---- CacheManager.cached (cache_manager.py:232-245)
    cached_ttl,     \* the ttl given to cached(ttl)
    wrapper,        \* per calling thread: where it is in wrapper(), its call, its last return
    func_calls,     \* the calls with which the wrapped functions were invoked, in order
    calls_started   \* number of wrapper() calls begun

VARIABLES
    \* ---- concurrent callers of one MemoryCacheBackend (cache_manager.py:123-151)
    mem_call        \* per thread: the method it is in, the line it is at, its arguments

backendVars == <<now, backend, _cache, max_size, _lock, cache_dir, ret>>
wrapperVars == <<cached_ttl, wrapper, func_calls, calls_started>>
threadVars == <<mem_call>>
cacheVars == <<backendVars, wrapperVars, threadVars>>

VARIABLES
    \* ---- the parts looked at on their own
    sb,             \* one overflowing pass of the for body (chunking.py:95-141), with its texts
    chat,           \* one call of QwenClient.chat_completion (llm_client.py:34-57, 109-168)
    first_run       \* what an earlier run of chunk_novel_text on the same input returned

auxVars == <<sb, chat, first_run>>

vars == <<chunkVars, cacheVars, auxVars>>

(* --------------------------- sequence helpers -------------------------- *)
RECURSIVE SumTok(_)
SumTok(text) == IF text = <<>> THEN 0 ELSE Head(text).tok + SumTok(Tail(text))

RECURSIVE Flatten(_)
Flatten(ss) == IF ss = <<>> THEN <<>> ELSE Head(ss) \o Flatten(Tail(ss))

SeqsUpTo(S, n) == UNION {[1..m -> S] : m \in 0..n}

(* ------------------------------- cache --------------------------------- *)
\* ttl = None (CacheEntry.ttl's default): the entry never expires
NoTTL == -1
TTLs == {NoTTL} \cup 1..MaxTTL
Keys == 1..NumKeys
Values == {"v1", "v2"}
\* what get returns for a miss
None == "None"

\* CacheEntry(value, created_at, ttl); NoEntry: nothing is stored under the key;
\* Corrupt: a <key>.pkl file that pickle.load cannot read.
CacheEntry(value, created_at, ttl) ==
    [kind |-> "entry", value |-> value, created_at |-> created_at, ttl |-> ttl]
NoEntry == [kind |-> "none"]
Corrupt == [kind |-> "corrupt"]

\* is_expired with the comparison of line 25 turned round
is_expired_Inverted(entry, t) ==
    entry.ttl # NoTTL /\ entry.created_at + entry.ttl > t

\* CacheEntry.is_expired() when time.time() returns t
is_expired(entry, t) ==
    entry.ttl # NoTTL /\ entry.created_at + entry.ttl < t

\* dict helpers on _cache, a sequence of [key, entry] in insertion order
DictKeys(cache) == {cache[i].key : i \in 1..Len(cache)}
DictGet(cache, key) ==
    IF key \in DictKeys(cache)
    THEN (CHOOSE i \in 1..Len(cache) : cache[i].key = key)
    ELSE 0
DictEntry(cache, key) ==
    IF key \in DictKeys(cache) THEN cache[DictGet(cache, key)].entry ELSE NoEntry
DictDel(cache, key) == SelectSeq(cache, LAMBDA kv : kv.key # key)
\* self._cache[key] = entry: in place for a key already there, appended otherwise
DictPut(cache, key, entry) ==
    IF key \in DictKeys(cache)
    THEN [cache EXCEPT ![DictGet(cache, key)] = [key |-> key, entry |-> entry]]
    ELSE Append(cache, [key |-> key, entry |-> entry])

\* MemoryCacheBackend._cleanup_expired_entries when time.time() returns t
_cleanup_expired_entries(cache, t) ==
    SelectSeq(cache, LAMBDA kv : ~is_expired(kv.entry, t))

\* OldestKey by max instead of min: the first key among those of largest created_at
OldestKey_Newest(cache) ==
    LET i == CHOOSE i \in 1..Len(cache) :
                /\ \A j \in 1..Len(cache) :
                        cache[i].entry.created_at >= cache[j].entry.created_at
                /\ \A j \in 1..(i - 1) :
                        cache[j].entry.created_at < cache[i].entry.created_at
    IN  cache[i].key

\* min(self._cache.keys(), key=created_at): the first key, in dict order, among
\* those of smallest created_at
OldestKey(cache) ==
    LET i == CHOOSE i \in 1..Len(cache) :
                /\ \A j \in 1..Len(cache) :
                        cache[i].entry.created_at <= cache[j].entry.created_at
                /\ \A j \in 1..(i - 1) :
                        cache[j].entry.created_at > cache[i].entry.created_at
    IN  cache[i].key

\* MemoryCacheBackend._evict_lru
_evict_lru(cache, size) ==
    IF Len(cache) > size THEN DictDel(cache, OldestKey(cache)) ELSE cache

\* What one MemoryCacheBackend call may do, the clock reading t when it starts:
\* the set of [cache, result, t, hung], t being the clock's last reading in the
\* call and hung telling that the call never returns (and keeps the lock).
MemGetOutcomes(cache, key, t) ==
    LET c1 == _cleanup_expired_entries(cache, t)
    IN  IF key \in DictKeys(c1)
        THEN {IF ~is_expired(DictEntry(c1, key), t2)
              THEN [cache |-> c1, result |-> DictEntry(c1, key).value, t |-> t2,
                    hung |-> FALSE]
              \* line 131: self.delete(key) acquires self._lock, which get holds
              ELSE [cache |-> c1, result |-> None, t |-> t2, hung |-> TRUE]
              : t2 \in t..MaxTime}
        ELSE {[cache |-> c1, result |-> None, t |-> t, hung |-> FALSE]}

MemSetOutcomes(cache, size, key, value, ttl, t) ==
    LET c2 == _evict_lru(_cleanup_expired_entries(cache, t), size)
    IN  {[cache |-> DictPut(c2, key, CacheEntry(value, t2, ttl)), result |-> None,
          t |-> t2, hung |-> FALSE] : t2 \in t..MaxTime}

MemDeleteOutcomes(cache, key, t) ==
    {[cache |-> DictDel(cache, key), result |-> None, t |-> t, hung |-> FALSE]}

MemExistsOutcomes(cache, key, t) ==
    LET c1 == _cleanup_expired_entries(cache, t)
    IN  IF key \in DictKeys(c1)
        THEN {[cache |-> c1, result |-> ~is_expired(DictEntry(c1, key), t2), t |-> t2,
               hung |-> FALSE] : t2 \in t..MaxTime}
        ELSE {[cache |-> c1, result |-> FALSE, t |-> t, hung |-> FALSE]}

\* What one FileCacheBackend call does: [dir, result, t].
FileGetOutcome(dir, key, t) ==
    IF dir[key].kind = "entry"
    THEN IF ~is_expired(dir[key], t)
         THEN [dir |-> dir, result |-> dir[key].value, t |-> t]
         ELSE [dir |-> [dir EXCEPT ![key] = NoEntry], result |-> None, t |-> t]
    \* no file (line 71), or pickle.load raised (lines 68-70): the file stays
    ELSE [dir |-> dir, result |-> None, t |-> t]

FileSetOutcome(dir, key, value, ttl, t) ==
    [dir |-> [dir EXCEPT ![key] = CacheEntry(value, t, ttl)], result |-> None, t |-> t]

FileDeleteOutcome(dir, key, t) ==
    [dir |-> [dir EXCEPT ![key] = NoEntry], result |-> None, t |-> t]

FileExistsOutcome(dir, key, t) ==
    IF dir[key].kind = "entry"
    THEN IF ~is_expired(dir[key], t)
         THEN [dir |-> dir, result |-> TRUE, t |-> t]
         ELSE [dir |-> [dir EXCEPT ![key] = NoEntry], result |-> FALSE, t |-> t]
    ELSE [dir |-> dir, result |-> FALSE, t |-> t]

\* the record of a backend call: before is what was stored under key when the
\* call began, t_call and t_ret the clock's first and last reading in it
Ret(op, key, result, before, t_call, t_ret) ==
    [op |-> op, key |-> key, result |-> result, before |-> before,
     t_call |-> t_call, t_ret |-> t_ret]
NoRet == [op |-> "none"]

\* ---- key derivation (cache_manager.py:154-224)
Threads == {"T1", "T2"}
Funcs == {"f", "g"}
\* an argument value: a primitive, or an instance of an opaque class
Prim(v) == [kind |-> "prim", v |-> v]
Instance(cls, id) == [kind |-> "inst", cls |-> cls, id |-> id]
ArgValues ==
    {Prim(v) : v \in 0..MaxPrim} \cup {Instance("A", id) : id \in 1..NumInstances}

\* a call of a wrapped function with one argument, passed positionally ("pos")
\* or by keyword ("kw")
Calls ==
    {c \in [func : Funcs, how : {"pos", "kw"}, arg : ArgValues] :
        c.how = "kw" => c.arg.kind = "inst"}
CallArgs(call) == IF call.how = "pos" THEN <<call.arg>> ELSE <<>>
CallKwargs(call) == IF call.how = "kw" THEN <<call.arg>> ELSE <<>>

_is_class_instance(obj) == obj.kind = "inst"

\* instances become the string "<class_instance:module.Class>"
_process_args_for_cache_key(args) ==
    [i \in 1..Len(args) |->
        IF _is_class_instance(args[i])
        THEN [kind |-> "str", v |-> <<"class_instance", args[i].cls>>]
        ELSE args[i]]

\* json.dumps(..., default=str) on a value: str(obj) of an instance is the default
\* repr, "<module.Class object at 0x...>", which names the instance
JsonDefaultStr(v) ==
    IF v.kind = "inst" THEN [kind |-> "str", v |-> <<"object at", v.cls, v.id>>] ELSE v

\* get_cache_key(*args, **kwargs): the md5 digest of the canonical JSON text,
\* modelled by the text itself (the digest is taken to be collision-free)
get_cache_key(args, kwargs) ==
    [args   |-> _process_args_for_cache_key(args),
     kwargs |-> [i \in 1..Len(kwargs) |-> JsonDefaultStr(kwargs[i])]]

KeyOf(call) == get_cache_key(CallArgs(call), CallKwargs(call))
CachedKeys == {KeyOf(c) : c \in Calls}

\* the wrapped functions: deterministic, blind to which instance they are given;
\* both raise on the primitive 0
Raises(call) == call.arg = Prim(0)
FuncResult(call) ==
    <<call.func, IF call.arg.kind = "inst" THEN call.arg.cls ELSE call.arg.v>>

NoCall == [func |-> "none"]
WrapperState(pcv, call, path, result) ==
    [pc |-> pcv, call |-> call, path |-> path, result |-> result]

\* no call is made through a cached wrapper
WrapperIdle ==
    /\ cached_ttl = NoTTL
    /\ wrapper = [t \in Threads |-> WrapperState("idle", NoCall, "none", None)]
    /\ func_calls = <<>>
    /\ calls_started = 0

\* where a thread is in a MemoryCacheBackend method: at is "idle" (in none),
\* "lock" (at "with self._lock"), or the statement it is about to run inside the
\* with block; snap and t0 remember the map the call found and its first clock
\* reading
MemCallState(at, op, key, value, ttl, result, snap, t0) ==
    [at |-> at, op |-> op, key |-> key, value |-> value, ttl |-> ttl,
     result |-> result, snap |-> snap, t0 |-> t0]
MemCallIdle == MemCallState("idle", "none", 0, None, NoTTL, None, <<>>, 0)

\* no thread is inside a MemoryCacheBackend method
ThreadsIdle == mem_call = [t \in Threads |-> MemCallIdle]

\* no overflowing pass is looked at on its own, no chat_completion call is made,
\* and no earlier run of chunk_novel_text is remembered
SafeBreakIdle == sb = [at |-> "idle"]
ChatIdle == chat = [at |-> "idle"]
NoFirstRun == first_run = [done |-> FALSE, chunks |-> <<>>]
AuxIdle == SafeBreakIdle /\ ChatIdle /\ NoFirstRun

\* the cache layer is not in use (a chunking run is modelled)
CacheIdle ==
    /\ now = 0
    /\ backend = "none"
    /\ _cache = <<>>
    /\ max_size = 1
    /\ _lock = "free"
    /\ cache_dir = [k \in Keys |-> NoEntry]
    /\ ret = NoRet
    /\ WrapperIdle
    /\ ThreadsIdle

\* the chunker is not in use (the cache layer is modelled)
ChunkIdle ==
    /\ chapters = <<>>
    /\ config = [max_tokens_per_chunk |-> 2, min_tokens_per_chunk |-> 1,
                 use_llm_for_refinement |-> FALSE]
    /\ chunks = <<>>
    /\ current_chunk_text = <<>>
    /\ current_start_chapter = 1
    /\ current_chapter_index = 0
    /\ paragraphs = <<>>
    /\ para_pos = 1
    /\ pc = "idle"
    /\ count_tokens_calls = 0
    /\ arbiter_calls = <<>>
    /\ fell_through = FALSE

\* MemoryCacheBackend(max_size) or FileCacheBackend(cache_dir), just constructed
BackendInit ==
    /\ ChunkIdle
    /\ now = 0
    /\ backend \in {"memory", "file"}
    /\ _cache = <<>>
    /\ max_size \in 1..MaxSize
    /\ _lock = "free"
    /\ cache_dir = [k \in Keys |-> NoEntry]
    /\ ret = NoRet
    /\ WrapperIdle
    /\ ThreadsIdle
    /\ AuxIdle

\* time passes between two calls
Tick ==
    /\ now < MaxTime
    /\ now' = now + 1
    /\ UNCHANGED <<auxVars, chunkVars, backend, _cache, max_size, _lock, cache_dir, ret, wrapperVars,
                   threadVars>>

\* a memory backend call: with self._lock (a caller stuck in line 131 keeps it)
MemCall(op, key, outs) ==
    /\ backend = "memory"
    /\ _lock = "free"
    /\ \E o \in outs :
        /\ _cache' = o.cache
        /\ now' = o.t
        /\ _lock' = IF o.hung THEN "held" ELSE "free"
        /\ ret' = Ret(op, key, IF o.hung THEN "hung" ELSE o.result,
                      DictEntry(_cache, key), now, o.t)
    /\ UNCHANGED <<auxVars, chunkVars, backend, max_size, cache_dir, wrapperVars, threadVars>>

MemoryCacheBackend_get(key) ==
    MemCall("get", key, MemGetOutcomes(_cache, key, now))

MemoryCacheBackend_set(key, value, ttl) ==
    MemCall("set", key, MemSetOutcomes(_cache, max_size, key, value, ttl, now))

MemoryCacheBackend_delete(key) ==
    MemCall("delete", key, MemDeleteOutcomes(_cache, key, now))

MemoryCacheBackend_exists(key) ==
    MemCall("exists", key, MemExistsOutcomes(_cache, key, now))

FileCall(op, key, o) ==
    /\ backend = "file"
    /\ cache_dir' = o.dir
    /\ now' = o.t
    /\ ret' = Ret(op, key, o.result, cache_dir[key], now, o.t)
    /\ UNCHANGED <<auxVars, chunkVars, backend, _cache, max_size, _lock, wrapperVars, threadVars>>

FileCacheBackend_get(key) ==
    FileCall("get", key, FileGetOutcome(cache_dir, key, now))

FileCacheBackend_set(key, value, ttl) ==
    FileCall("set", key, FileSetOutcome(cache_dir, key, value, ttl, now))

FileCacheBackend_delete(key) ==
    FileCall("delete", key, FileDeleteOutcome(cache_dir, key, now))

FileCacheBackend_exists(key) ==
    FileCall("exists", key, FileExistsOutcome(cache_dir, key, now))

\* a record of the cache directory becomes unreadable (a torn or foreign write)
FileCorrupted(key) ==
    /\ backend = "file"
    /\ cache_dir[key].kind = "entry"
    /\ cache_dir' = [cache_dir EXCEPT ![key] = Corrupt]
    /\ UNCHANGED <<auxVars, chunkVars, now, backend, _cache, max_size, _lock, ret, wrapperVars,
                   threadVars>>

BackendNext ==
    \/ Tick
    \/ \E key \in Keys : MemoryCacheBackend_get(key)
    \/ \E key \in Keys, value \in Values, ttl \in TTLs :
            MemoryCacheBackend_set(key, value, ttl)
    \/ \E key \in Keys : MemoryCacheBackend_delete(key)
    \/ \E key \in Keys : MemoryCacheBackend_exists(key)
    \/ \E key \in Keys : FileCacheBackend_get(key)
    \/ \E key \in Keys, value \in Values, ttl \in TTLs :
            FileCacheBackend_set(key, value, ttl)
    \/ \E key \in Keys : FileCacheBackend_delete(key)
    \/ \E key \in Keys : FileCacheBackend_exists(key)
    \/ \E key \in Keys : FileCorrupted(key)

\* any sequence of calls by one caller on one backend, time passing in between
SpecBackend == BackendInit /\ [][BackendNext]_vars

\* ---- concurrent callers of one MemoryCacheBackend, statement by statement
\* thread t is inside a with self._lock block
InsideLock(t) == mem_call[t].at \notin {"idle", "lock"}

\* the value the threads store with set
ThreadValue == "v1"

\* one MemoryCacheBackend shared by the threads
ThreadsInit ==
    /\ ChunkIdle
    /\ now = 0
    /\ backend = "memory"
    /\ _cache = <<>>
    /\ max_size \in 1..MaxSize
    /\ _lock = "free"
    /\ cache_dir = [k \in Keys |-> NoEntry]
    /\ ret = NoRet
    /\ WrapperIdle
    /\ ThreadsIdle
    /\ AuxIdle

ThreadStep(t, new) ==
    /\ backend = "memory"
    /\ mem_call' = [mem_call EXCEPT ![t] = new]
    /\ UNCHANGED <<auxVars, chunkVars, backend, max_size, cache_dir, ret, wrapperVars>>

\* the with block is left: the lock is released and the method returns result
MemReturn(t, result) ==
    /\ _lock' = "free"
    /\ ThreadStep(t, [MemCallIdle EXCEPT !.result = result])

\* thread t calls get, set, delete or exists and reaches "with self._lock"
MemBegin(t, op, key, value, ttl) ==
    /\ mem_call[t].at = "idle"
    /\ ThreadStep(t, MemCallState("lock", op, key, value, ttl, None, <<>>, 0))
    /\ UNCHANGED <<now, _cache, _lock>>

\* MemLockAcquire entering the with block whether or not the lock is free
MemLockAcquire_IgnoresLock(t) ==
    /\ mem_call[t].at = "lock"
    /\ _lock' = "held"
    /\ ThreadStep(t, [mem_call[t] EXCEPT
            !.at = IF mem_call[t].op = "delete" THEN "pop" ELSE "purge",
            !.snap = _cache, !.t0 = now])
    /\ UNCHANGED <<now, _cache>>

\* lines 124, 135, 145, 149: with self._lock acquires the lock once it is free
MemLockAcquire(t) ==
    /\ mem_call[t].at = "lock"
    /\ _lock = "free"
    /\ _lock' = "held"
    /\ ThreadStep(t, [mem_call[t] EXCEPT
            !.at = IF mem_call[t].op = "delete" THEN "pop" ELSE "purge",
            !.snap = _cache, !.t0 = now])
    /\ UNCHANGED <<now, _cache>>

\* lines 125, 136, 150: self._cleanup_expired_entries()
MemPurge(t) ==
    /\ mem_call[t].at = "purge"
    /\ _cache' = _cleanup_expired_entries(_cache, now)
    /\ ThreadStep(t, [mem_call[t] EXCEPT
            !.at = CASE mem_call[t].op = "get" -> "lookup"
                     [] mem_call[t].op = "set" -> "evict"
                     [] mem_call[t].op = "exists" -> "test",
            !.t0 = now])
    /\ UNCHANGED <<now, _lock>>

\* get, lines 126-132: return the value of a live entry, None without entry; for
\* an entry that expired since the purge, line 131 calls self.delete(key), whose
\* with self._lock waits for the lock this thread holds: the thread stays there
MemGetLookup(t) ==
    /\ mem_call[t].at = "lookup"
    /\ LET key == mem_call[t].key
       IN  IF key \in DictKeys(_cache)
           THEN IF ~is_expired(DictEntry(_cache, key), now)
                THEN MemReturn(t, DictEntry(_cache, key).value)
                ELSE /\ ThreadStep(t, [mem_call[t] EXCEPT !.at = "delete in get"])
                     /\ UNCHANGED _lock
           ELSE MemReturn(t, None)
    /\ UNCHANGED <<now, _cache>>

\* set, line 137: self._evict_lru()
MemSetEvict(t) ==
    /\ mem_call[t].at = "evict"
    /\ _cache' = _evict_lru(_cache, max_size)
    /\ ThreadStep(t, [mem_call[t] EXCEPT !.at = "store"])
    /\ UNCHANGED <<now, _lock>>

\* set, lines 138-142: self._cache[key] = CacheEntry(value, time.time(), ttl)
MemSetStore(t) ==
    /\ mem_call[t].at = "store"
    /\ _cache' = DictPut(_cache, mem_call[t].key,
                         CacheEntry(mem_call[t].value, now, mem_call[t].ttl))
    /\ MemReturn(t, None)
    /\ UNCHANGED now

\* exists, line 151
MemExistsTest(t) ==
    /\ mem_call[t].at = "test"
    /\ MemReturn(t, /\ mem_call[t].key \in DictKeys(_cache)
                    /\ ~is_expired(DictEntry(_cache, mem_call[t].key), now))
    /\ UNCHANGED <<now, _cache>>

\* delete, line 146: self._cache.pop(key, None)
MemDeletePop(t) ==
    /\ mem_call[t].at = "pop"
    /\ _cache' = DictDel(_cache, mem_call[t].key)
    /\ MemReturn(t, None)
    /\ UNCHANGED now

ThreadsNext ==
    \/ Tick
    \/ \E t \in Threads, op \in {"get", "delete", "exists"}, key \in Keys :
            MemBegin(t, op, key, None, NoTTL)
    \/ \E t \in Threads, key \in Keys, ttl \in TTLs :
            MemBegin(t, "set", key, ThreadValue, ttl)
    \/ \E t \in Threads : MemLockAcquire(t)
    \/ \E t \in Threads : MemPurge(t)
    \/ \E t \in Threads : MemGetLookup(t)
    \/ \E t \in Threads : MemSetEvict(t)
    \/ \E t \in Threads : MemSetStore(t)
    \/ \E t \in Threads : MemExistsTest(t)
    \/ \E t \in Threads : MemDeletePop(t)

\* two threads calling the methods of one MemoryCacheBackend, interleaved at the
\* statements of the methods, time passing at any point
SpecThreads == ThreadsInit /\ [][ThreadsNext]_vars

\* ---- CacheManager.cached (cache_manager.py:232-245)
\* a CacheManager over a backend just constructed, and cached(ttl) applied
CachedInit ==
    /\ ChunkIdle
    /\ now = 0
    /\ backend \in {"memory", "file"}
    /\ _cache = <<>>
    /\ max_size \in 1..MaxSize
    /\ _lock = "free"
    /\ cache_dir = [k \in CachedKeys |-> NoEntry]
    /\ ret = NoRet
    /\ cached_ttl \in TTLs
    /\ wrapper = [t \in Threads |-> WrapperState("idle", NoCall, "none", None)]
    /\ func_calls = <<>>
    /\ calls_started = 0
    /\ ThreadsIdle
    /\ AuxIdle

\* what self.backend.<op>(key, ...) may do: [cache, dir, result, t, hung]
BackendOutcomes(op, key, value, ttl) ==
    IF backend = "memory"
    THEN LET outs == CASE op = "get"    -> MemGetOutcomes(_cache, key, now)
                       [] op = "set"    -> MemSetOutcomes(_cache, max_size, key, value, ttl, now)
                       [] op = "exists" -> MemExistsOutcomes(_cache, key, now)
         IN  {[cache |-> o.cache, dir |-> cache_dir, result |-> o.result, t |-> o.t,
               hung |-> o.hung] : o \in outs}
    ELSE LET o == CASE op = "get"    -> FileGetOutcome(cache_dir, key, now)
                    [] op = "set"    -> FileSetOutcome(cache_dir, key, value, ttl, now)
                    [] op = "exists" -> FileExistsOutcome(cache_dir, key, now)
         IN  {[cache |-> _cache, dir |-> o.dir, result |-> o.result, t |-> o.t,
               hung |-> FALSE]}

\* the backend call of a wrapper step takes effect (a memory call needs the lock)
BackendApply(o) ==
    /\ backend = "memory" => _lock = "free"
    /\ _cache' = o.cache
    /\ cache_dir' = o.dir
    /\ now' = o.t
    /\ _lock' = IF o.hung THEN "held" ELSE _lock
    /\ UNCHANGED <<auxVars, chunkVars, backend, max_size, ret, cached_ttl, threadVars>>

\* lines 237-238: wrapper(*args, **kwargs) derives the key and asks exists
CachedCall(t, call) ==
    /\ wrapper[t].pc = "idle"
    /\ calls_started < MaxCalls
    /\ calls_started' = calls_started + 1
    /\ \E o \in BackendOutcomes("exists", KeyOf(call), None, NoTTL) :
        /\ BackendApply(o)
        /\ wrapper' = [wrapper EXCEPT ![t] =
                WrapperState(IF o.result THEN "hit" ELSE "miss", call, "none", None)]
    /\ UNCHANGED func_calls

\* lines 239-240: the key exists: return self.backend.get(cache_key)
CachedHit(t) ==
    /\ wrapper[t].pc = "hit"
    /\ \E o \in BackendOutcomes("get", KeyOf(wrapper[t].call), None, NoTTL) :
        /\ BackendApply(o)
        /\ wrapper' = [wrapper EXCEPT ![t] =
                IF o.hung
                THEN WrapperState("hung", wrapper[t].call, "hit", None)
                ELSE WrapperState("idle", wrapper[t].call, "hit", o.result)]
    /\ UNCHANGED <<func_calls, calls_started>>

\* CachedMiss with the ttl of line 242 not passed on to set
CachedMiss_DropsTtl(t) ==
    /\ wrapper[t].pc = "miss"
    /\ ~Raises(wrapper[t].call)
    /\ func_calls' = Append(func_calls, wrapper[t].call)
    /\ \E o \in BackendOutcomes("set", KeyOf(wrapper[t].call),
                                FuncResult(wrapper[t].call), NoTTL) :
        /\ BackendApply(o)
        /\ wrapper' = [wrapper EXCEPT ![t] =
                WrapperState("idle", wrapper[t].call, "miss", FuncResult(wrapper[t].call))]
    /\ UNCHANGED calls_started

\* lines 241-243: a miss: call func, store its result with the ttl, return it
CachedMiss(t) ==
    /\ wrapper[t].pc = "miss"
    /\ ~Raises(wrapper[t].call)
    /\ func_calls' = Append(func_calls, wrapper[t].call)
    /\ \E o \in BackendOutcomes("set", KeyOf(wrapper[t].call),
                                FuncResult(wrapper[t].call), cached_ttl) :
        /\ BackendApply(o)
        /\ wrapper' = [wrapper EXCEPT ![t] =
                WrapperState("idle", wrapper[t].call, "miss", FuncResult(wrapper[t].call))]
    /\ UNCHANGED calls_started

\* CachedMissRaises storing None under the key before the error leaves wrapper(),
\* as if line 242 ran in a finally clause
CachedMissRaises_StoresNone(t) ==
    /\ wrapper[t].pc = "miss"
    /\ Raises(wrapper[t].call)
    /\ func_calls' = Append(func_calls, wrapper[t].call)
    /\ \E o \in BackendOutcomes("set", KeyOf(wrapper[t].call), None, cached_ttl) :
        /\ BackendApply(o)
        /\ wrapper' = [wrapper EXCEPT ![t] =
                WrapperState("idle", wrapper[t].call, "raised", None)]
    /\ UNCHANGED calls_started

\* line 241 when func raises: the error leaves wrapper(), nothing is stored
CachedMissRaises(t) ==
    /\ wrapper[t].pc = "miss"
    /\ Raises(wrapper[t].call)
    /\ func_calls' = Append(func_calls, wrapper[t].call)
    /\ wrapper' = [wrapper EXCEPT ![t] =
            WrapperState("idle", wrapper[t].call, "raised", None)]
    /\ UNCHANGED <<auxVars, chunkVars, backendVars, cached_ttl, calls_started, threadVars>>

CachedNext ==
    \/ Tick
    \/ \E t \in Threads, call \in Calls : CachedCall(t, call)
    \/ \E t \in Threads : CachedHit(t)
    \/ \E t \in Threads : CachedMiss(t)
    \/ \E t \in Threads : CachedMissRaises(t)

\* calls through one cached wrapper by up to two threads, time passing in between
SpecCached == CachedInit /\ [][CachedNext]_vars

(* ------------------------------ chunking ------------------------------- *)
\* A raw paragraph of a chapter text: tok = 0 is an empty or whitespace-only one.
ParaKinds ==
    {[tok |-> t, safe |-> s] : t \in 1..(MaxBudget + 1), s \in BOOLEAN}
        \cup {[tok |-> 0, safe |-> FALSE]}

\* ChunkConfig: the thresholds (0 < min < max), and whether the arbiter is used.
Configs ==
    {c \in [max_tokens_per_chunk : 1..MaxBudget, min_tokens_per_chunk : 1..MaxBudget,
             use_llm_for_refinement : BOOLEAN] :
        c.min_tokens_per_chunk < c.max_tokens_per_chunk}

\* llm_client.count_tokens on a text: a monotonic, deterministic estimate.
CountTokens(text) ==
    IF text = <<>> THEN 0 ELSE SumTok(text) + SepTokens * (Len(text) - 1)

\* is_safe_break_point(paragraph, config): some safe_break_keywords pattern matches.
is_safe_break_point(para) == para.safe

\* split_into_paragraphs without the "if para.strip()" filter of line 64
split_into_paragraphs_KeepsBlank(chapter_text) == chapter_text

\* split_into_paragraphs: split by the separator, strip, drop the blank ones.
split_into_paragraphs(chapter_text) ==
    SelectSeq(chapter_text, LAMBDA p : p.tok > 0)

\* (current_chunk_text + "\n\n" + para).strip()
JoinStrip(text, para) == text \o <<para>>

\* break_reason is written in English here; the strings of chunking.py are
\*   "safe keyword"            for line 116 (safe keyword or paragraph end),
\*   "forced: max token limit" for line 134 (max token limit reached, forced cut),
\*   "arbiter split"           for line 138 (the model judged a plot transition),
\*   "end of text"             for line 158.
_create_chunk(text, start_chapter, end_chapter, is_natural_break, break_reason) ==
    [start_chapter_idx |-> start_chapter,
     end_chapter_idx   |-> end_chapter,
     text              |-> text,
     estimated_tokens  |-> CountTokens(text),
     is_natural_break  |-> is_natural_break,
     break_reason      |-> break_reason]

\* _refine_chunks_with_llm returns content['chunk_content'] as the model wrote it.
\* What the arbiter may answer for a text: no split, a split in two at a paragraph
\* joint, or an answer that breaks its contract (a single part, a part lost, a
\* part repeated, three parts).
ArbiterSplits(text) ==
    {<<SubSeq(text, 1, k), SubSeq(text, k + 1, Len(text))>> : k \in 1..(Len(text) - 1)}

ArbiterViolations(text) ==
    {<<text>>, <<text, text>>, <<text, text, text>>}
        \cup {<<SubSeq(text, 1, k)>> : k \in 1..(Len(text) - 1)}

_refine_chunks_with_llm(text) ==
    {<<>>} \cup ArbiterSplits(text) \cup ArbiterViolations(text)

\* The arbiter's contract: nothing, or two sub-texts that concatenate to the input.
ArbiterConforms(call) ==
    call.output = <<>> \/ call.output \in ArbiterSplits(call.input)

\* the chapter lists tried: up to MaxChapters chapters holding up to MaxParas raw
\* paragraphs in all; asg gives each paragraph of flat its chapter.
BuildChapters(flat, nch, asg) ==
    [c \in 1..nch |->
        LET mine == {i \in 1..Len(flat) : asg[i] = c}
            first == IF mine = {} THEN 1 ELSE CHOOSE i \in mine : \A j \in mine : i <= j
        IN  [k \in 1..Cardinality(mine) |->
                [ch |-> c, idx |-> k, tok |-> flat[first + k - 1].tok,
                 safe |-> flat[first + k - 1].safe]]]

ChunkInit ==
    /\ \E flat \in SeqsUpTo(ParaKinds, MaxParas), nch \in 0..MaxChapters :
         \E asg \in [1..Len(flat) -> 1..nch] :
            /\ \A i, j \in 1..Len(flat) : i <= j => asg[i] <= asg[j]
            /\ chapters = BuildChapters(flat, nch, asg)
    /\ config \in Configs
    /\ chunks = <<>>
    /\ current_chunk_text = <<>>
    /\ current_start_chapter = 1
    /\ current_chapter_index = 0
    /\ paragraphs = <<>>
    /\ para_pos = 1
    /\ pc = "while"
    /\ count_tokens_calls = 0
    /\ arbiter_calls = <<>>
    /\ fell_through = FALSE
    /\ CacheIdle
    /\ AuxIdle

\* lines 88-93: the while test holds; read the next chapter and split it.
ReadChapter ==
    /\ UNCHANGED <<cacheVars, auxVars>>
    /\ pc = "while"
    /\ current_chapter_index < Len(chapters)
    /\ paragraphs' = split_into_paragraphs(chapters[current_chapter_index + 1])
    /\ para_pos' = 1
    /\ pc' = "for"
    /\ UNCHANGED <<chapters, config, chunks, current_chunk_text, current_start_chapter,
                   current_chapter_index, count_tokens_calls, arbiter_calls,
                   fell_through>>

\* the values of one pass of the for body (lines 95-98)
para == paragraphs[para_pos]
\* chapter_num taken as the 0-based index itself
chapter_num_ZeroBased == current_chapter_index
chapter_num == current_chapter_index + 1
temp_text == JoinStrip(current_chunk_text, para)
\* temp_tokens with para counted once more on top of temp_text
temp_tokens_CountsParaTwice == CountTokens(temp_text) + CountTokens(<<para>>)
temp_tokens == CountTokens(temp_text)
InForBody == pc = "for" /\ para_pos <= Len(paragraphs)

\* lines 101-103: within the budget, commit the append.
Accumulate ==
    /\ UNCHANGED <<cacheVars, auxVars>>
    /\ InForBody
    /\ temp_tokens <= config.max_tokens_per_chunk
    /\ current_chunk_text' = temp_text
    /\ para_pos' = para_pos + 1
    /\ count_tokens_calls' = count_tokens_calls + 1
    /\ UNCHANGED <<chapters, config, chunks, current_start_chapter, current_chapter_index,
                   paragraphs, pc, arbiter_calls, fell_through>>

\* SafeCut with the min_tokens_per_chunk test of line 107 left out
SafeCut_NoMinCheck ==
    /\ UNCHANGED <<cacheVars, auxVars>>
    /\ InForBody
    /\ temp_tokens > config.max_tokens_per_chunk
    /\ is_safe_break_point(para)
    /\ chunks' = Append(chunks, _create_chunk(current_chunk_text, current_start_chapter,
                                              chapter_num, TRUE, "safe keyword"))
    /\ current_chunk_text' = <<para>>
    /\ current_start_chapter' = chapter_num
    /\ current_chapter_index' = current_chapter_index + 1
    /\ pc' = "while"
    /\ count_tokens_calls' = count_tokens_calls + 3
    /\ UNCHANGED <<chapters, config, paragraphs, para_pos, arbiter_calls, fell_through>>

\* lines 106-122: the buffer is big enough and para is a safe break: emit the
\* buffer, seed the new one with para, and break out of the for loop (line 149).
SafeCut ==
    /\ UNCHANGED <<cacheVars, auxVars>>
    /\ InForBody
    /\ temp_tokens > config.max_tokens_per_chunk
    /\ CountTokens(current_chunk_text) >= config.min_tokens_per_chunk
    /\ is_safe_break_point(para)
    /\ chunks' = Append(chunks, _create_chunk(current_chunk_text, current_start_chapter,
                                              chapter_num, TRUE, "safe keyword"))
    /\ current_chunk_text' = <<para>>
    /\ current_start_chapter' = chapter_num
    /\ current_chapter_index' = current_chapter_index + 1
    /\ pc' = "while"
    /\ count_tokens_calls' = count_tokens_calls + 3
    /\ UNCHANGED <<chapters, config, paragraphs, para_pos, arbiter_calls, fell_through>>

\* ArbiterCut taken whether or not para is a safe break, as if line 123 were an
\* if of its own instead of the elif of the safe-keyword test
ArbiterCut_EvenWhenSafe ==
    /\ UNCHANGED <<cacheVars, auxVars>>
    /\ InForBody
    /\ temp_tokens > config.max_tokens_per_chunk
    /\ CountTokens(current_chunk_text) >= config.min_tokens_per_chunk
    /\ config.use_llm_for_refinement
    /\ \E chunks_text \in _refine_chunks_with_llm(current_chunk_text) :
        /\ arbiter_calls' = Append(arbiter_calls,
                                   [input |-> current_chunk_text, output |-> chunks_text])
        /\ IF Len(chunks_text) = 0
           THEN /\ chunks' = Append(chunks, _create_chunk(current_chunk_text,
                                        current_start_chapter, chapter_num, FALSE,
                                        "forced: max token limit"))
                /\ count_tokens_calls' = count_tokens_calls + 4
           ELSE /\ chunks' = chunks \o
                        [i \in 1..Len(chunks_text) |->
                            _create_chunk(chunks_text[i], current_start_chapter,
                                          chapter_num, TRUE, "arbiter split")]
                /\ count_tokens_calls' = count_tokens_calls + 3 + Len(chunks_text)
    /\ current_chunk_text' = <<para>>
    /\ current_start_chapter' = chapter_num
    /\ para_pos' = para_pos + 1
    /\ UNCHANGED <<chapters, config, current_chapter_index, paragraphs, pc, fell_through>>

\* lines 123-141: the buffer is big enough, para is no safe break and refinement
\* is on: ask the arbiter, emit what it returns (or the whole buffer, forced).
ArbiterCut ==
    /\ UNCHANGED <<cacheVars, auxVars>>
    /\ InForBody
    /\ temp_tokens > config.max_tokens_per_chunk
    /\ CountTokens(current_chunk_text) >= config.min_tokens_per_chunk
    /\ ~is_safe_break_point(para)
    /\ config.use_llm_for_refinement
    /\ \E chunks_text \in _refine_chunks_with_llm(current_chunk_text) :
        /\ arbiter_calls' = Append(arbiter_calls,
                                   [input |-> current_chunk_text, output |-> chunks_text])
        /\ IF Len(chunks_text) = 0
           THEN /\ chunks' = Append(chunks, _create_chunk(current_chunk_text,
                                        current_start_chapter, chapter_num, FALSE,
                                        "forced: max token limit"))
                /\ count_tokens_calls' = count_tokens_calls + 4
           ELSE /\ chunks' = chunks \o
                        [i \in 1..Len(chunks_text) |->
                            _create_chunk(chunks_text[i], current_start_chapter,
                                          chapter_num, TRUE, "arbiter split")]
                /\ count_tokens_calls' = count_tokens_calls + 3 + Len(chunks_text)
    /\ current_chunk_text' = <<para>>
    /\ current_start_chapter' = chapter_num
    /\ para_pos' = para_pos + 1
    /\ UNCHANGED <<chapters, config, current_chapter_index, paragraphs, pc, fell_through>>

\* lines 106-141 when neither branch is taken: the buffer is below the minimum,
\* or para is no safe break and refinement is off. Nothing is assigned; the for
\* loop moves on to the next paragraph.
NoCut ==
    /\ UNCHANGED <<cacheVars, auxVars>>
    /\ InForBody
    /\ temp_tokens > config.max_tokens_per_chunk
    /\ \/ CountTokens(current_chunk_text) < config.min_tokens_per_chunk
       \/ (~is_safe_break_point(para) /\ ~config.use_llm_for_refinement)
    /\ para_pos' = para_pos + 1
    /\ count_tokens_calls' = count_tokens_calls + 3
    /\ fell_through' = TRUE
    /\ UNCHANGED <<chapters, config, chunks, current_chunk_text, current_start_chapter,
                   current_chapter_index, paragraphs, pc, arbiter_calls>>

\* lines 143-146: the for loop ran to its end; go on with the next chapter.
ChapterDone ==
    /\ UNCHANGED <<cacheVars, auxVars>>
    /\ pc = "for"
    /\ para_pos > Len(paragraphs)
    /\ current_chapter_index' = current_chapter_index + 1
    /\ pc' = "while"
    /\ UNCHANGED <<chapters, config, chunks, current_chunk_text, current_start_chapter,
                   paragraphs, para_pos, count_tokens_calls, arbiter_calls, fell_through>>

\* Finish with current_start_chapter given as the end chapter of the last chunk
Finish_EndsAtStartChapter ==
    /\ UNCHANGED <<cacheVars, auxVars>>
    /\ pc = "while"
    /\ current_chapter_index >= Len(chapters)
    /\ IF current_chunk_text # <<>>
       THEN /\ chunks' = Append(chunks, _create_chunk(current_chunk_text,
                                    current_start_chapter, current_start_chapter, TRUE,
                                    "end of text"))
            /\ count_tokens_calls' = count_tokens_calls + 1
       ELSE UNCHANGED <<chunks, count_tokens_calls>>
    /\ pc' = "done"
    /\ UNCHANGED <<chapters, config, current_chunk_text, current_start_chapter,
                   current_chapter_index, paragraphs, para_pos, arbiter_calls, fell_through>>

\* Finish emitting the buffer only when it has reached min_tokens_per_chunk
Finish_SkipsSmallBuffer ==
    /\ UNCHANGED <<cacheVars, auxVars>>
    /\ pc = "while"
    /\ current_chapter_index >= Len(chapters)
    /\ IF current_chunk_text # <<>>
            /\ CountTokens(current_chunk_text) >= config.min_tokens_per_chunk
       THEN /\ chunks' = Append(chunks, _create_chunk(current_chunk_text,
                                    current_start_chapter, Len(chapters), TRUE,
                                    "end of text"))
            /\ count_tokens_calls' = count_tokens_calls + 2
       ELSE UNCHANGED <<chunks, count_tokens_calls>>
    /\ pc' = "done"
    /\ UNCHANGED <<chapters, config, current_chunk_text, current_start_chapter,
                   current_chapter_index, paragraphs, para_pos, arbiter_calls, fell_through>>

\* lines 151-162: all chapters read; emit what is left in the buffer and return.
Finish ==
    /\ UNCHANGED <<cacheVars, auxVars>>
    /\ pc = "while"
    /\ current_chapter_index >= Len(chapters)
    /\ IF current_chunk_text # <<>>
       THEN /\ chunks' = Append(chunks, _create_chunk(current_chunk_text,
                                    current_start_chapter, Len(chapters), TRUE,
                                    "end of text"))
            /\ count_tokens_calls' = count_tokens_calls + 1
       ELSE UNCHANGED <<chunks, count_tokens_calls>>
    /\ pc' = "done"
    /\ UNCHANGED <<chapters, config, current_chunk_text, current_start_chapter,
                   current_chapter_index, paragraphs, para_pos, arbiter_calls, fell_through>>

ChunkNext ==
    \/ ReadChapter
    \/ Accumulate
    \/ SafeCut
    \/ ArbiterCut
    \/ NoCut
    \/ ChapterDone
    \/ Finish

\* one run of chunk_novel_text on any chapter list and configuration
SpecChunk == ChunkInit /\ [][ChunkNext]_vars

\* What ChunkConfig(**settings) accepts at line 79: the fields are typed, the
\* thresholds are any integers (the class declares no validator).
LoadableConfigs ==
    [max_tokens_per_chunk : 1..MaxBudget, min_tokens_per_chunk : 0..MaxBudget,
     use_llm_for_refinement : BOOLEAN]

ChunkInitAnyConfig ==
    /\ \E flat \in SeqsUpTo(ParaKinds, MaxParas), nch \in 0..MaxChapters :
         \E asg \in [1..Len(flat) -> 1..nch] :
            /\ \A i, j \in 1..Len(flat) : i <= j => asg[i] <= asg[j]
            /\ chapters = BuildChapters(flat, nch, asg)
    /\ config \in LoadableConfigs
    /\ chunks = <<>>
    /\ current_chunk_text = <<>>
    /\ current_start_chapter = 1
    /\ current_chapter_index = 0
    /\ paragraphs = <<>>
    /\ para_pos = 1
    /\ pc = "while"
    /\ count_tokens_calls = 0
    /\ arbiter_calls = <<>>
    /\ fell_through = FALSE
    /\ CacheIdle
    /\ AuxIdle

\* one run of chunk_novel_text with any configuration the settings file can give
SpecChunkAnyConfig == ChunkInitAnyConfig /\ [][ChunkNext]_vars

\* ---- chunk_novel_text called a second time on the same chapters
\* The arbiter (and the response cache in front of it) is a function of the text
\* it is given: equal inputs got equal answers, in this run and in the earlier one.
ArbiterDeterministic ==
    \A i, j \in 1..Len(arbiter_calls) :
        arbiter_calls[i].input = arbiter_calls[j].input
            => arbiter_calls[i].output = arbiter_calls[j].output

\* SecondRun with the buffer kept from the first run, as if current_chunk_text
\* outlived the call
SecondRun_KeepsBuffer ==
    /\ pc = "done"
    /\ ~first_run.done
    /\ first_run' = [done |-> TRUE, chunks |-> chunks]
    /\ chunks' = <<>>
    /\ current_start_chapter' = 1
    /\ current_chapter_index' = 0
    /\ paragraphs' = <<>>
    /\ para_pos' = 1
    /\ pc' = "while"
    /\ count_tokens_calls' = 0
    /\ fell_through' = FALSE
    /\ UNCHANGED <<chapters, config, current_chunk_text, arbiter_calls, cacheVars, sb, chat>>

\* the first call has returned (its result is kept for comparison) and
\* chunk_novel_text is called again with the same chapters and settings:
\* lines 79-86 set up the locals anew
SecondRun ==
    /\ pc = "done"
    /\ ~first_run.done
    /\ first_run' = [done |-> TRUE, chunks |-> chunks]
    /\ chunks' = <<>>
    /\ current_chunk_text' = <<>>
    /\ current_start_chapter' = 1
    /\ current_chapter_index' = 0
    /\ paragraphs' = <<>>
    /\ para_pos' = 1
    /\ pc' = "while"
    /\ count_tokens_calls' = 0
    /\ fell_through' = FALSE
    /\ UNCHANGED <<chapters, config, arbiter_calls, cacheVars, sb, chat>>

TwiceNext ==
    \/ (ChunkNext /\ ArbiterDeterministic')
    \/ SecondRun

\* two runs of chunk_novel_text, one after the other, on the same input with a
\* deterministic arbiter
SpecTwice == ChunkInit /\ [][TwiceNext]_vars

(* ------------------ is_safe_break_point on texts ----------------------- *)
\* Texts as character sequences; "." stands for the full stop that ends a
\* sentence. The patterns are plain keywords, as in chunk_config.yaml.
SbAlphabet == {"x", "y", "."}
SbTexts == SeqsUpTo(SbAlphabet, MaxTextLen)
SbPatterns == SeqsUpTo({"x", "y"}, MaxPatternLen) \ {<<>>}
SbKeywordLists == SeqsUpTo(SbPatterns, MaxPatterns)

\* re.search(pattern, paragraph) for a plain keyword: scan the start positions
RECURSIVE re_search_from(_, _, _)
re_search_from(pattern, paragraph, i) ==
    IF i + Len(pattern) - 1 > Len(paragraph)
    THEN FALSE
    ELSE IF SubSeq(paragraph, i, i + Len(pattern) - 1) = pattern
         THEN TRUE
         ELSE re_search_from(pattern, paragraph, i + 1)

\* re_search matching at the start of the paragraph only (re.match)
re_search_AtStartOnly(pattern, paragraph) ==
    /\ Len(pattern) <= Len(paragraph)
    /\ SubSeq(paragraph, 1, Len(pattern)) = pattern

re_search(pattern, paragraph) == re_search_from(pattern, paragraph, 1)

\* is_safe_break_point(paragraph, config), lines 41-45: the loop over
\* config.safe_break_keywords
RECURSIVE is_safe_break_point_text(_, _)
is_safe_break_point_text(paragraph, safe_break_keywords) ==
    IF safe_break_keywords = <<>>
    THEN FALSE
    ELSE IF re_search(Head(safe_break_keywords), paragraph)
         THEN TRUE
         ELSE is_safe_break_point_text(paragraph, Tail(safe_break_keywords))

\* a pass of the for body in which appending para overflows: the buffer's text,
\* whether it has min_tokens_per_chunk tokens (enough), the paragraph, the
\* configured keywords and use_llm_for_refinement (refine)
SafeBreakInit ==
    /\ ChunkIdle
    /\ CacheIdle
    /\ ChatIdle
    /\ NoFirstRun
    /\ \E buffer \in SbTexts, paragraph \in SbTexts \ {<<>>},
          keywords \in SbKeywordLists, enough \in BOOLEAN, refine \in BOOLEAN :
            sb = [at |-> "ready", buffer |-> buffer, para |-> paragraph,
                  keywords |-> keywords, enough |-> enough, refine |-> refine,
                  result |-> FALSE, branch |-> "none"]

\* is_safe_break_point(paragraph, config) called on the paragraph
SbIsSafeBreakPoint ==
    /\ sb.at = "ready"
    /\ sb' = [sb EXCEPT !.at = "tested",
                        !.result = is_safe_break_point_text(sb.para, sb.keywords)]
    /\ UNCHANGED <<chunkVars, cacheVars, chat, first_run>>

\* lines 106-141: which branch the overflowing pass takes
SbOverflowPass ==
    /\ sb.at = "ready"
    /\ sb' = [sb EXCEPT !.at = "passed",
                !.branch = IF sb.enough /\ is_safe_break_point_text(sb.para, sb.keywords)
                           THEN "safe cut"
                           ELSE IF sb.enough /\ sb.refine THEN "arbiter" ELSE "none"]
    /\ UNCHANGED <<chunkVars, cacheVars, chat, first_run>>

SafeBreakNext == SbIsSafeBreakPoint \/ SbOverflowPass

\* is_safe_break_point, and the test of lines 106-109, on any texts and keywords
SpecSafeBreak == SafeBreakInit /\ [][SafeBreakNext]_vars

(* ----------------------- QwenClient.chat_completion --------------------- *)
\* the errors the retry loop catches and retries (line 156)
RetryableErrors == {"APIConnectionError", "RateLimitError", "APIStatusError"}

\* One call client.chat_completion(messages, max_retries=.., retry_delay=..)
\* through the file_cache wrapper. use_cache is the client's flag, cached tells
\* whether the response file of the key exists when the call starts, too_long
\* whether count_tokens(messages) exceeds self.max_tokens. hist lists what each
\* request sent ended in, sleeps the durations passed to time.sleep, in order.
ChatInit ==
    /\ ChunkIdle
    /\ CacheIdle
    /\ SafeBreakIdle
    /\ NoFirstRun
    /\ \E use_cache \in BOOLEAN, cached \in BOOLEAN, too_long \in BOOLEAN,
          max_retries \in 0..MaxRetries, retry_delay \in 1..MaxDelay :
            chat = [at |-> "wrapper", use_cache |-> use_cache, cached |-> cached,
                    too_long |-> too_long, max_retries |-> max_retries,
                    retry_delay |-> retry_delay, attempt |-> 0, hist |-> <<>>,
                    sleeps |-> <<>>, outcome |-> "none", error |-> "none",
                    file_written |-> FALSE]

\* lines 38-45: the cache is on and the response file exists: its content is
\* returned, chat_completion is not entered
WrapperCacheHit ==
    /\ chat.at = "wrapper"
    /\ chat.use_cache /\ chat.cached
    /\ chat' = [chat EXCEPT !.at = "done", !.outcome = "returned"]
    /\ UNCHANGED <<chunkVars, cacheVars, sb, first_run>>

\* line 48: no cache, or no file: call chat_completion
WrapperCallsFunc ==
    /\ chat.at = "wrapper"
    /\ ~(chat.use_cache /\ chat.cached)
    /\ chat' = [chat EXCEPT !.at = "count"]
    /\ UNCHANGED <<chunkVars, cacheVars, sb, first_run>>

\* lines 121-124: the input is too long, ValueError goes through the wrapper
InputTooLong ==
    /\ chat.at = "count"
    /\ chat.too_long
    /\ chat' = [chat EXCEPT !.at = "done", !.outcome = "raised", !.error = "ValueError"]
    /\ UNCHANGED <<chunkVars, cacheVars, sb, first_run>>

\* lines 125-138: build the request, enter the loop with attempt = 0
EnterRetryLoop ==
    /\ chat.at = "count"
    /\ ~chat.too_long
    /\ chat' = [chat EXCEPT !.at = "attempt", !.attempt = 0]
    /\ UNCHANGED <<chunkVars, cacheVars, sb, first_run>>

\* attempt is in range(max_retries + 1)
InLoop == chat.at = "attempt" /\ chat.attempt <= chat.max_retries

\* lines 139-154: the request succeeds, the result is returned to the wrapper
AttemptSucceeds ==
    /\ InLoop
    /\ chat' = [chat EXCEPT !.at = "store", !.hist = Append(@, "ok")]
    /\ UNCHANGED <<chunkVars, cacheVars, sb, first_run>>

\* AttemptRetryable sleeping retry_delay every time, without the factor 2^attempt
AttemptRetryable_FixedDelay(err) ==
    /\ InLoop
    /\ IF chat.attempt < chat.max_retries
       THEN chat' = [chat EXCEPT !.hist = Append(@, err),
                                 !.sleeps = Append(@, chat.retry_delay),
                                 !.attempt = @ + 1]
       ELSE chat' = [chat EXCEPT !.hist = Append(@, err), !.at = "done",
                                 !.outcome = "raised", !.error = err]
    /\ UNCHANGED <<chunkVars, cacheVars, sb, first_run>>

\* lines 156-163: the request fails with one of the retryable errors: sleep and
\* go round again, or raise it when this was attempt max_retries
AttemptRetryable(err) ==
    /\ InLoop
    /\ IF chat.attempt < chat.max_retries
       THEN chat' = [chat EXCEPT !.hist = Append(@, err),
                                 !.sleeps = Append(@, chat.retry_delay * (2 ^ chat.attempt)),
                                 !.attempt = @ + 1]
       ELSE chat' = [chat EXCEPT !.hist = Append(@, err), !.at = "done",
                                 !.outcome = "raised", !.error = err]
    /\ UNCHANGED <<chunkVars, cacheVars, sb, first_run>>

\* lines 164-166: any other exception, from the request or from reading the
\* response, is raised at once
AttemptOtherError ==
    /\ InLoop
    /\ chat' = [chat EXCEPT !.hist = Append(@, "Exception"), !.at = "done",
                            !.outcome = "raised", !.error = "Exception"]
    /\ UNCHANGED <<chunkVars, cacheVars, sb, first_run>>

\* lines 50-55: back in the wrapper with the result: write the response file when
\* the cache is on, return the result
WrapperStores ==
    /\ chat.at = "store"
    /\ chat' = [chat EXCEPT !.at = "done", !.outcome = "returned",
                            !.file_written = chat.use_cache]
    /\ UNCHANGED <<chunkVars, cacheVars, sb, first_run>>

ChatNext ==
    \/ WrapperCacheHit
    \/ WrapperCallsFunc
    \/ InputTooLong
    \/ EnterRetryLoop
    \/ AttemptSucceeds
    \/ \E err \in RetryableErrors : AttemptRetryable(err)
    \/ AttemptOtherError
    \/ WrapperStores

\* one call of chat_completion, the server answering each request in any way
SpecChat == ChatInit /\ [][ChatNext]_vars

(* ============================== claims ================================= *)
(* ------------------------------ cache ---------------------------------- *)
\* the entry stored under key in the backend under test
StoredEntryIn(cache, dir, key) ==
    IF backend = "memory" THEN DictEntry(cache, key) ELSE dir[key]
StoredEntry(key) == StoredEntryIn(_cache, cache_dir, key)

\* entry e is stored and its ttl, if any, has not elapsed at time t
LiveAt(e, t) ==
    e.kind = "entry" /\ (e.ttl = NoTTL \/ t <= e.created_at + e.ttl)

\* C2 (cached: hit and miss): a miss invokes the function once, returns its result
\* and stores it under the derived key with the wrapper's ttl; a call made while a
\* live entry is stored under its key is a hit; a hit whose entry is still live
\* returns the stored value and invokes nothing. So of two sequential calls with
\* equal arguments, with no expiry, eviction or delete in between, the first
\* invokes the function and the second does not.
C2_CachedHitAndMiss ==
    [][\A t \in Threads :
        LET call == wrapper'[t].call
            key  == KeyOf(call)
        IN  /\ (wrapper[t].pc = "miss" /\ wrapper'[t].pc = "idle"
                    /\ wrapper'[t].path = "miss") =>
                /\ func_calls' = Append(func_calls, call)
                /\ wrapper'[t].result = FuncResult(call)
                /\ StoredEntryIn(_cache', cache_dir', key).kind = "entry"
                /\ StoredEntryIn(_cache', cache_dir', key).value = FuncResult(call)
                /\ StoredEntryIn(_cache', cache_dir', key).ttl = cached_ttl
            /\ (wrapper[t].pc = "idle" /\ wrapper'[t].pc # "idle"
                    /\ LiveAt(StoredEntry(key), now')) =>
                /\ wrapper'[t].pc = "hit"
                /\ func_calls' = func_calls
            /\ (wrapper[t].pc = "hit" /\ wrapper'[t].pc # "hit"
                    /\ LiveAt(StoredEntry(key), now')) =>
                /\ wrapper'[t].pc = "idle"
                /\ wrapper'[t].result = StoredEntry(key).value
                /\ func_calls' = func_calls
      ]_vars

\* C2 witness: two calls were made, the function was invoked once, and the second
\* call returned, as a hit, the result of its function
C2_Witness ==
    /\ calls_started = 2
    /\ Len(func_calls) = 1
    /\ \E t \in Threads :
        /\ wrapper[t].pc = "idle"
        /\ wrapper[t].path = "hit"
        /\ wrapper[t].call = func_calls[1]
        /\ wrapper[t].result = FuncResult(wrapper[t].call)

\* C3 (bounded): a MemoryCacheBackend never holds more than max_size entries.
C3_MemoryBounded ==
    backend = "memory" => Len(_cache) <= max_size

\* C4 (eviction on overflow): when the backend holds max_size unexpired entries and
\* a new key is set, exactly one of them is removed, one of smallest created_at.
C4_EvictionOnOverflow ==
    [][\A key \in Keys :
        (/\ backend = "memory"
         /\ Len(_cache) = max_size
         /\ \A i \in 1..Len(_cache) : LiveAt(_cache[i].entry, now')
         /\ key \notin DictKeys(_cache)
         /\ key \in DictKeys(_cache')) =>
            \E victim \in DictKeys(_cache) :
                /\ \A i \in 1..Len(_cache) :
                      DictEntry(_cache, victim).created_at <= _cache[i].entry.created_at
                /\ DictKeys(_cache') = (DictKeys(_cache) \ {victim}) \cup {key}
      ]_vars

\* C5 (expiry): on either backend, a get or exists on a key whose stored entry has a
\* ttl finds it (get returns the value, exists returns true) when the call ends
\* before the ttl has elapsed since created_at, and finds nothing (None, false)
\* when the call begins after it has elapsed; an entry without ttl is always found.
C5_Expiry ==
    (ret.op \in {"get", "exists"} /\ ret.before.kind = "entry") =>
        LET e == ret.before
            found  == IF ret.op = "get" THEN ret.result = e.value ELSE ret.result = TRUE
            absent == IF ret.op = "get" THEN ret.result = None ELSE ret.result = FALSE
        IN  /\ e.ttl = NoTTL => found
            /\ (e.ttl # NoTTL /\ ret.t_ret < e.created_at + e.ttl) => found
            /\ (e.ttl # NoTTL /\ ret.t_call > e.created_at + e.ttl) => absent

\* C5 witness: a get that began after the ttl of the stored entry had elapsed
\* returned None
C5_Witness ==
    /\ ret.op = "get"
    /\ ret.before.kind = "entry"
    /\ ret.before.ttl # NoTTL
    /\ ret.t_call > ret.before.created_at + ret.before.ttl
    /\ ret.result = None

\* C6 (exists and get agree): when exists(key) has returned true, the next call on
\* the backend, a get(key) on the record still stored, returns (if it returns) the
\* stored value, whatever time has passed in between.
C6_ExistsThenGet ==
    [][(/\ ret.op = "exists"
        /\ ret.result = TRUE
        /\ ret'.op = "get"
        /\ ret'.key = ret.key
        /\ ret'.before.kind = "entry"
        /\ ret'.result # "hung") =>
            ret'.result = ret'.before.value
      ]_vars

(* ------------------------- chunk_novel_text ---------------------------- *)
\* chunk_novel_text has returned (line 162)
Returned == pc = "done"

\* every answer the arbiter gave kept its contract
ArbiterOk == \A i \in 1..Len(arbiter_calls) : ArbiterConforms(arbiter_calls[i])

\* the non-empty paragraphs of the input, in input order
InputParas ==
    Flatten([c \in 1..Len(chapters) |-> split_into_paragraphs(chapters[c])])

\* the paragraphs of the returned chunks' texts, in order
ChunkedParas == Flatten([i \in 1..Len(chunks) |-> chunks[i].text])

\* the input is one chapter made of one paragraph larger than the budget
OneOversizedParagraph ==
    /\ Len(chapters) = 1
    /\ Len(chapters[1]) = 1
    /\ chapters[1][1].tok > config.max_tokens_per_chunk

\* C1 (completeness): when chunk_novel_text returns, the texts of the chunks, in
\* order, hold every non-empty paragraph of the input exactly once, in input
\* order. Stated for runs in which the arbiter kept its contract.
C1_Completeness ==
    (Returned /\ ArbiterOk) => ChunkedParas = InputParas

\* C7 (budget respect): every returned chunk with is_natural_break and a break
\* reason other than end-of-text has estimated_tokens <= max_tokens_per_chunk.
\* Stated for runs in which the arbiter kept its contract and no pass of the for
\* body fell through lines 106-141 (the degenerate path).
C7_BudgetRespect ==
    (Returned /\ ArbiterOk /\ ~fell_through) =>
        \A i \in 1..Len(chunks) :
            (chunks[i].is_natural_break /\ chunks[i].break_reason # "end of text")
                => chunks[i].estimated_tokens <= config.max_tokens_per_chunk

C9_DegenerateAccumulation ==
    (Returned /\ OneOversizedParagraph) =>
        /\ Len(chunks) = 1
        /\ chunks[1].text = chapters[1]
        /\ chunks[1].break_reason = "end of text"

\* C10 (forced splitting): with refinement off and no safe keyword, a single chapter
\* made of one paragraph larger than max_tokens_per_chunk yields more than one chunk,
\* at least one of them with the forced-split break reason.
C10_ForcedSplitOfOversized ==
    (Returned /\ OneOversizedParagraph /\ ~config.use_llm_for_refinement
        /\ ~chapters[1][1].safe) =>
        /\ Len(chunks) > 1
        /\ \E i \in 1..Len(chunks) : chunks[i].break_reason = "forced: max token limit"

\* the prefixes of the input's paragraphs all fit the budget: every append is
\* committed by line 102
AllWithinBudget ==
    \A k \in 1..Len(InputParas) :
        CountTokens(SubSeq(InputParas, 1, k)) <= config.max_tokens_per_chunk

\* C11 (one chunk when all fits): when every append keeps the buffer within
\* max_tokens_per_chunk and the input has a non-empty paragraph, the run returns
\* exactly one chunk: all the paragraphs in order, start_chapter_idx = 1,
\* end_chapter_idx = the number of chapters, break reason end-of-text.
C11_SingleChunkWithinBudget ==
    (Returned /\ InputParas # <<>> /\ AllWithinBudget) =>
        /\ Len(chunks) = 1
        /\ chunks[1].text = InputParas
        /\ chunks[1].start_chapter_idx = 1
        /\ chunks[1].end_chapter_idx = Len(chapters)
        /\ chunks[1].break_reason = "end of text"

\* C11 witness: a returned run over two chapters, both with paragraphs, all of
\* which fit one chunk
C11_Witness ==
    /\ Returned
    /\ AllWithinBudget
    /\ Len(chapters) = 2
    /\ \A c \in 1..2 : split_into_paragraphs(chapters[c]) # <<>>
    /\ Len(chunks) = 1
    /\ chunks[1].end_chapter_idx = 2

\* C12 (final emission): the step that returns, taken once all chapters are read,
\* appends the buffer, if it is not empty, as the last chunk with is_natural_break
\* and the end-of-text reason, whatever its token count; with an empty buffer it
\* appends nothing.
C12_FinalEmission ==
    [][(pc # "done" /\ pc' = "done") =>
        /\ current_chapter_index >= Len(chapters)
        /\ IF current_chunk_text # <<>>
           THEN /\ Len(chunks') = Len(chunks) + 1
                /\ SubSeq(chunks', 1, Len(chunks)) = chunks
                /\ chunks'[Len(chunks')].text = current_chunk_text
                /\ chunks'[Len(chunks')].is_natural_break
                /\ chunks'[Len(chunks')].break_reason = "end of text"
           ELSE chunks' = chunks
      ]_vars

\* C12 witness: a returned run whose last chunk is an end-of-text chunk over the
\* budget
C12_Witness ==
    /\ Returned
    /\ chunks # <<>>
    /\ chunks[Len(chunks)].break_reason = "end of text"
    /\ chunks[Len(chunks)].is_natural_break
    /\ chunks[Len(chunks)].estimated_tokens > config.max_tokens_per_chunk

\* every chapter of the input (if any) is empty or whitespace-only text
OnlyBlankChapters ==
    \A c \in 1..Len(chapters) : \A i \in 1..Len(chapters[c]) : chapters[c][i].tok = 0

\* C13 (empty input): a run on no chapter, or on chapters holding only empty or
\* whitespace-only text, returns no chunk and calls neither the token estimator
\* nor the arbiter.
C13_EmptyInput ==
    (Returned /\ OnlyBlankChapters) =>
        /\ chunks = <<>>
        /\ count_tokens_calls = 0
        /\ arbiter_calls = <<>>

\* C13 witness: a returned run on two chapters, one empty and one made of a
\* whitespace-only paragraph
C13_Witness ==
    /\ Returned
    /\ Len(chapters) = 2
    /\ \E c \in 1..2 : chapters[c] = <<>>
    /\ \E c \in 1..2 : chapters[c] # <<>>
    /\ OnlyBlankChapters
    /\ chunks = <<>>

\* the scenario's input: one chapter of two paragraphs, the second one matching a
\* safe keyword, the whole text within max_tokens_per_chunk, and
\* min_tokens_per_chunk = 1
SafeKeywordScenario ==
    /\ Len(chapters) = 1
    /\ Len(chapters[1]) = 2
    /\ chapters[1][1].tok > 0 /\ ~chapters[1][1].safe
    /\ chapters[1][2].tok > 0 /\ chapters[1][2].safe
    /\ CountTokens(chapters[1]) <= config.max_tokens_per_chunk
    /\ config.min_tokens_per_chunk = 1

\* C14 as claimed (safe-keyword scenario): on the scenario's input the run returns
\* two chunks, the first paragraph with the safe-keyword reason and then the second
\* with the end-of-text reason, both natural breaks.
C14_ScenarioTwoChunks ==
    (Returned /\ SafeKeywordScenario) =>
        /\ Len(chunks) = 2
        /\ chunks[1].text = <<chapters[1][1]>>
        /\ chunks[2].text = <<chapters[1][2]>>
        /\ chunks[1].is_natural_break /\ chunks[2].is_natural_break
        /\ chunks[1].break_reason = "safe keyword"
        /\ chunks[2].break_reason = "end of text"

\* C14 as amended: on the scenario's input the run returns one chunk holding both
\* paragraphs, a natural break with the end-of-text reason (a safe keyword cuts
\* only when the append would exceed the budget).
C14_ScenarioOneChunk ==
    (Returned /\ SafeKeywordScenario) =>
        /\ Len(chunks) = 1
        /\ chunks[1].text = chapters[1]
        /\ chunks[1].is_natural_break
        /\ chunks[1].break_reason = "end of text"

\* C14 witness: the scenario's run has returned
C14_Witness ==
    /\ Returned
    /\ SafeKeywordScenario
    /\ Len(chunks) = 1

\* C15 (arbiter contract violations): a pass of the for body in which the arbiter
\* answers against its contract emits the whole buffer as one forced chunk with
\* is_natural_break = false, as if no split had been found.
C15_ArbiterViolationForced ==
    [][(/\ Len(arbiter_calls') = Len(arbiter_calls) + 1
        /\ ~ArbiterConforms(arbiter_calls'[Len(arbiter_calls')])) =>
            chunks' = Append(chunks, _create_chunk(current_chunk_text,
                                current_start_chapter, chapter_num, FALSE,
                                "forced: max token limit"))
      ]_vars

\* C20 (chapter range): every returned chunk's start_chapter_idx and
\* end_chapter_idx are the chapters of its first and of its last paragraph.
\* Stated for runs in which the arbiter kept its contract.
C20_ChapterRange ==
    (Returned /\ ArbiterOk) =>
        \A i \in 1..Len(chunks) :
            chunks[i].text # <<>> =>
                /\ chunks[i].start_chapter_idx = chunks[i].text[1].ch
                /\ chunks[i].end_chapter_idx = chunks[i].text[Len(chunks[i].text)].ch

(* --------------------------- cache, continued -------------------------- *)
\* two calls of the same function that differ at most in which instance of the
\* opaque class they pass (in the same way, positionally or by keyword)
SameButInstance(c1, c2) ==
    /\ c1.func = c2.func
    /\ c1.how = c2.how
    /\ \/ c1.arg = c2.arg
       \/ (c1.arg.kind = "inst" /\ c2.arg.kind = "inst" /\ c1.arg.cls = c2.arg.cls)

\* C16 (opaque arguments): a call through the wrapper made while a live entry is
\* stored under the key of a call that differs from it only in the instance of
\* the opaque class passed, positionally or by keyword, is a hit.
C16_OpaqueArgsHit ==
    [][\A t \in Threads :
        (wrapper[t].pc = "idle" /\ wrapper'[t].pc \in {"hit", "miss"}) =>
            \A c2 \in Calls :
                (/\ c2.arg.kind = "inst"
                 /\ SameButInstance(wrapper'[t].call, c2)
                 /\ LiveAt(StoredEntry(KeyOf(c2)), now')) => wrapper'[t].pc = "hit"
      ]_vars

\* C17 (is_expired at the boundary): a get or exists that reads the clock at one
\* instant t finds nothing exactly when the stored entry has a ttl and
\* t >= created_at + ttl; so an entry is expired already at t = created_at + ttl.
C17_ExpiredFromEquality ==
    (/\ ret.op \in {"get", "exists"}
     /\ ret.before.kind = "entry"
     /\ ret.t_call = ret.t_ret) =>
        LET e == ret.before
            absent == IF ret.op = "get" THEN ret.result = None ELSE ret.result = FALSE
        IN  absent <=> (e.ttl # NoTTL /\ ret.t_call >= e.created_at + e.ttl)

\* C19 (corrupt records): a FileCacheBackend get or exists on a record that cannot
\* be read returns None, respectively false, and removes the record from the
\* cache directory.
C19_CorruptRecordEvicted ==
    [][\A key \in Keys :
        (/\ backend = "file"
         /\ cache_dir[key].kind = "corrupt"
         /\ ret' # ret
         /\ ret'.op \in {"get", "exists"}
         /\ ret'.key = key) =>
            /\ ret'.result = (IF ret'.op = "get" THEN None ELSE FALSE)
            /\ cache_dir'[key] = NoEntry
      ]_vars

\* what the whole call of thread t, run alone on the map snap it found with its
\* first clock reading t0, may leave as the map and give as its result
WholeCallOutcomes(c) ==
    CASE c.op = "get"    -> MemGetOutcomes(c.snap, c.key, c.t0)
      [] c.op = "set"    -> MemSetOutcomes(c.snap, max_size, c.key, c.value, c.ttl, c.t0)
      [] c.op = "delete" -> MemDeleteOutcomes(c.snap, c.key, c.t0)
      [] c.op = "exists" -> MemExistsOutcomes(c.snap, c.key, c.t0)

\* C18 (mutual exclusion): at most one thread is inside a get/set/delete/exists
\* critical section of the backend, and holds the lock while inside; and each call
\* that ends leaves the map, and gives the result, that the whole call run alone
\* on the map it found gives (nothing of another thread's call in between).
C18_MutualExclusion ==
    [][/\ \A t1, t2 \in Threads : (InsideLock(t1)' /\ InsideLock(t2)') => t1 = t2
       /\ \A t \in Threads : InsideLock(t)' => _lock' = "held"
       /\ \A t \in Threads :
            (InsideLock(t) /\ mem_call'[t].at \in {"idle", "delete in get"}) =>
                \E o \in WholeCallOutcomes(mem_call[t]) :
                    /\ o.cache = _cache'
                    /\ o.hung = (mem_call'[t].at = "delete in get")
                    /\ ~o.hung => o.result = mem_call'[t].result
      ]_vars

\* C18 witness: a set that found an entry in the map is about to store its own
\* while the other thread waits for the lock
C18_Witness ==
    \E t1, t2 \in Threads :
        /\ t1 # t2
        /\ mem_call[t1].op = "set"
        /\ mem_call[t1].at = "store"
        /\ mem_call[t1].snap # <<>>
        /\ mem_call[t2].at = "lock"

(* ---------------------- is_safe_break_point ---------------------------- *)
\* some pattern of keywords occurs somewhere in text
MatchesSome(text, keywords) ==
    \E k \in 1..Len(keywords), i \in 1..Len(text) :
        /\ i + Len(keywords[k]) - 1 <= Len(text)
        /\ SubSeq(text, i, i + Len(keywords[k]) - 1) = keywords[k]

C22_FullStopIsSafe ==
    (sb.at = "tested" /\ sb.para[Len(sb.para)] = ".") => sb.result = TRUE

(* ------------------- chunk_novel_text, continued ----------------------- *)
\* min_tokens_per_chunk is not positive, or not below max_tokens_per_chunk
InvalidThresholds ==
    \/ config.min_tokens_per_chunk <= 0
    \/ config.min_tokens_per_chunk >= config.max_tokens_per_chunk

\* C23 (configuration invariant): with thresholds that break 0 < min < max the
\* configuration is rejected at line 79: the run reads no chapter, processes no
\* paragraph and returns no chunks.
C23_InvalidConfigRejected ==
    InvalidThresholds => (pc \notin {"for", "done"} /\ chunks = <<>>)

Overflows == temp_tokens > config.max_tokens_per_chunk
BufferHasMin == CountTokens(current_chunk_text) >= config.min_tokens_per_chunk

\* C25 (safe-keyword cut step): when appending p would overflow, the buffer has
\* the minimum and p is a safe break, the buffer without p is emitted as one
\* natural-break "safe keyword" chunk, the new buffer is p alone, and the loop goes
\* on with the paragraph after p in the same chapter.
C25_SafeCutStep ==
    [][(InForBody /\ Overflows /\ BufferHasMin /\ is_safe_break_point(para))
        => /\ chunks' = Append(chunks, _create_chunk(current_chunk_text,
                                   current_start_chapter, chapter_num, TRUE, "safe keyword"))
           /\ current_chunk_text' = <<para>>
           /\ current_chapter_index' = current_chapter_index
           /\ paragraphs' = paragraphs
           /\ para_pos' = para_pos + 1
           /\ pc' = "for"]_vars

\* C26 (arbiter step): the arbiter is asked exactly in the steps where appending p
\* overflows, the buffer has the minimum, p is no safe break and refinement is on;
\* it is then asked once, on the buffer; an empty answer emits the buffer as one
\* forced chunk, two sub-texts are emitted in order as two natural "arbiter split"
\* chunks, and either way the new buffer is p alone.
C26_ArbiterStep ==
    [][LET asked == /\ InForBody
                    /\ Overflows
                    /\ BufferHasMin
                    /\ ~is_safe_break_point(para)
                    /\ config.use_llm_for_refinement
           n == Len(arbiter_calls)
       IN  /\ (arbiter_calls' # arbiter_calls) <=> asked
           /\ asked =>
                /\ Len(arbiter_calls') = n + 1
                /\ SubSeq(arbiter_calls', 1, n) = arbiter_calls
                /\ arbiter_calls'[n + 1].input = current_chunk_text
                /\ current_chunk_text' = <<para>>
                /\ arbiter_calls'[n + 1].output = <<>> =>
                      chunks' = Append(chunks,
                          [start_chapter_idx |-> current_start_chapter,
                           end_chapter_idx   |-> chapter_num,
                           text              |-> current_chunk_text,
                           estimated_tokens  |-> CountTokens(current_chunk_text),
                           is_natural_break  |-> FALSE,
                           break_reason      |-> "forced: max token limit"])
                /\ Len(arbiter_calls'[n + 1].output) = 2 =>
                      chunks' = chunks \o
                          [i \in 1..2 |->
                              [start_chapter_idx |-> current_start_chapter,
                               end_chapter_idx   |-> chapter_num,
                               text              |-> arbiter_calls'[n + 1].output[i],
                               estimated_tokens  |->
                                   CountTokens(arbiter_calls'[n + 1].output[i]),
                               is_natural_break  |-> TRUE,
                               break_reason      |-> "arbiter split"]]]_vars

\* C26 witness: the arbiter has answered once with nothing and once with two
\* sub-texts; the forced chunk and the two arbiter-split chunks are in the list
C26_Witness ==
    /\ Len(arbiter_calls) = 2
    /\ arbiter_calls[1].output = <<>>
    /\ Len(arbiter_calls[2].output) = 2
    /\ Len(chunks) = 3
    /\ chunks[1].break_reason = "forced: max token limit"
    /\ ~chunks[1].is_natural_break
    /\ chunks[2].break_reason = "arbiter split"
    /\ chunks[3].break_reason = "arbiter split"
    /\ chunks[2].text = arbiter_calls[2].output[1]
    /\ chunks[3].text = arbiter_calls[2].output[2]
    /\ Len(current_chunk_text) = 1

\* a step that is a call of the memory backend: the record of the last call, or
\* the dict, is not what it was
MemoryOpStep ==
    /\ backend = "memory"
    /\ ret'.op # "none"
    /\ \/ ret.op = "none"
       \/ ret'.op # ret.op
       \/ ret'.key # ret.key
       \/ ret'.t_call # ret.t_call
       \/ ret'.t_ret # ret.t_ret
       \/ _cache' # _cache

\* C27 (purge on every operation): right after get, set, delete or exists of the
\* memory backend returns, the backend holds no entry that was already expired
\* when the operation began.
C27_PurgeOnEveryOp ==
    [][MemoryOpStep =>
        \A i \in 1..Len(_cache') : ~is_expired(_cache'[i].entry, now)]_vars

C29_RetryProtocol ==
    LET n == Len(chat.hist)
        ended == chat.at = "done"
    IN  /\ n <= chat.max_retries + 1
        /\ Len(chat.sleeps) <= n
        /\ \A k \in 0..(n - 1) :
            LET r == chat.hist[k + 1]
            IN  /\ (r \in RetryableErrors /\ k < chat.max_retries) =>
                    /\ Len(chat.sleeps) > k
                    /\ chat.sleeps[k + 1] = chat.retry_delay * (2 ^ k)
                    /\ (n > k + 1 \/ (chat.at = "attempt" /\ chat.attempt = k + 1))
                /\ (r \in RetryableErrors /\ k = chat.max_retries) =>
                    /\ n = k + 1 /\ ended
                    /\ chat.outcome = "raised" /\ chat.error = r
                    /\ Len(chat.sleeps) = k
                /\ r = "Exception" =>
                    /\ n = k + 1 /\ ended
                    /\ chat.outcome = "raised" /\ chat.error = "Exception"
                    /\ Len(chat.sleeps) = k
                /\ r = "ok" =>
                    /\ n = k + 1
                    /\ chat.at \in {"store", "done"}
                    /\ ended => chat.outcome = "returned"
                    /\ Len(chat.sleeps) = k
        /\ (ended /\ chat.outcome = "raised") => ~chat.file_written

\* C29 witness: with the cache on and max_retries = 2, three requests failed with
\* retryable errors, two sleeps of retry_delay and 2 * retry_delay were made, and
\* the call raised the third error
C29_Witness ==
    /\ chat.at = "done"
    /\ chat.use_cache
    /\ chat.max_retries = 2
    /\ Len(chat.hist) = 3
    /\ chat.hist[1] = "APIConnectionError"
    /\ chat.hist[3] = "RateLimitError"
    /\ chat.sleeps = <<chat.retry_delay, 2 * chat.retry_delay>>
    /\ chat.outcome = "raised"
    /\ chat.error = "RateLimitError"
    /\ ~chat.file_written

(* ------------------ MemoryCacheBackend.get and the lock ------------------ *)
\* C30 (get returns and frees the lock): no call of get is ever left waiting
\* inside its own critical section with the backend lock held, whenever the entry
\* expires relative to the call: every get goes on to return and free the lock.
C30_GetReleasesLock ==
    \A t \in Threads : mem_call[t].at # "delete in get"

(* ----------------------- CacheManager.cached, continued ------------------ *)
\* thread t has returned from a call through the wrapper, by a hit or by a miss
WrapperReturned(t) == wrapper[t].pc = "idle" /\ wrapper[t].path \in {"hit", "miss"}

\* C31 (the wrapper returns a result of f): every call through a cached wrapper
\* that returns, returns the value f gives for its arguments, never None because
\* the entry went away between the wrapper's exists and its get.
C31_ReturnsResultOfFunc ==
    \A t \in Threads :
        WrapperReturned(t) => wrapper[t].result = FuncResult(wrapper[t].call)

\* C32 (one computation per key): over a MemoryCacheBackend, two threads calling
\* the wrapper with equal arguments never both observe a miss, so the function is
\* not invoked twice for a key whose entry would be live.
C32_NoDoubleMiss ==
    backend = "memory" =>
        \A t1, t2 \in Threads :
            (/\ wrapper[t1].pc = "miss"
             /\ wrapper[t2].pc = "miss"
             /\ wrapper[t1].call = wrapper[t2].call) => t1 = t2

\* C33 (failures are not cached): when the wrapped function raises, the wrapper
\* ends with the error, the function having been invoked, and leaves the backend
\* as it was, no entry under the key; and a call with arguments on which the
\* function raises is always a miss, so the function is invoked again.
C33_FailuresNotCached ==
    [][\A t \in Threads :
        /\ (wrapper[t].pc = "miss" /\ Raises(wrapper[t].call)
                /\ wrapper'[t].pc = "idle") =>
            /\ wrapper'[t].path = "raised"
            /\ func_calls' = Append(func_calls, wrapper[t].call)
            /\ _cache' = _cache
            /\ cache_dir' = cache_dir
            /\ StoredEntryIn(_cache', cache_dir', KeyOf(wrapper[t].call)).kind # "entry"
        /\ (wrapper[t].pc = "idle" /\ wrapper'[t].pc # "idle"
                /\ Raises(wrapper'[t].call)) =>
            wrapper'[t].pc = "miss"
      ]_vars

\* C33 witness: the function raised, and the next call with the same arguments
\* invoked it again and raised again
C33_Witness ==
    /\ Len(func_calls) = 2
    /\ func_calls[1] = func_calls[2]
    /\ Raises(func_calls[1])
    /\ \A t \in Threads : wrapper[t].pc = "idle"
    /\ \E t \in Threads :
        wrapper[t].path = "raised" /\ wrapper[t].call = func_calls[2]

\* C34 (isolation of wrapped operations): a call of one operation through the
\* wrapper never returns a value that a call of the other operation stored.
C34_OperationsIsolated ==
    \A t \in Threads :
        (WrapperReturned(t) /\ wrapper[t].result # None) =>
            wrapper[t].result[1] = wrapper[t].call.func

(* ------------------- chunk_novel_text, chapter indices ------------------- *)
\* C35 (chunk index invariant): on a non-empty chapter list every returned chunk
\* has 1 <= start_chapter_idx <= end_chapter_idx <= number of chapters, and
\* start_chapter_idx never decreases along the returned sequence.
C35_ChunkIndexInvariant ==
    (Returned /\ chapters # <<>>) =>
        /\ \A i \in 1..Len(chunks) :
            /\ 1 <= chunks[i].start_chapter_idx
            /\ chunks[i].start_chapter_idx <= chunks[i].end_chapter_idx
            /\ chunks[i].end_chapter_idx <= Len(chapters)
        /\ \A i \in 1..(Len(chunks) - 1) :
            chunks[i].start_chapter_idx <= chunks[i + 1].start_chapter_idx

\* C35 witness: two chapters gave three chunks, the first cut made while reading
\* chapter 1 and the last chunk starting in chapter 2
C35_Witness ==
    /\ Returned
    /\ Len(chapters) = 2
    /\ Len(chunks) = 3
    /\ chunks[1].end_chapter_idx = 1
    /\ chunks[2].start_chapter_idx = 1
    /\ chunks[3].start_chapter_idx = 2
    /\ chunks[3].end_chapter_idx = 2

====
